---- MODULE Spec2Model ----
(***************************************************************************)
(* whisper-openapi: the HTTP dispatch layer of src/webservice.py.          *)
(*                                                                         *)
(* The module-level start-up (engine creation, model load, route           *)
(* definition, uvicorn.run), the three POST handlers and the asyncio event *)
(* loop that runs them.  The handlers are `async def` coroutines without a *)
(* single `await`: once the loop has entered one, it runs to its return    *)
(* (or to the exception that leaves it) before the loop does anything else.*)
(* The engine, the factory, load_audio and CONFIG live in app.* modules    *)
(* that are not part of src/; they are modelled from the specification.    *)
(***************************************************************************)
EXTENDS Integers, Sequences, FiniteSets, TLC

VARIABLES
    CONFIG,      \* app.config.CONFIG: [ASR_ENGINE, HF_TOKEN], read-only
    phase,       \* position of the module-level start-up code
    asr_model,   \* the module global asr_model: an engine instance id, 0 = unbound
    created,     \* number of engine instances ASRModelFactory has constructed
    loads,       \* number of load_model() calls made on any engine instance
    schema,      \* per route, the parameters with include_in_schema = True
    loop,        \* the request whose handler occupies the event loop, 0 = idle
    req,         \* req[r]: the HTTP request as the client sent it
    pc,          \* pc[r]: where request r is
    wave,        \* wave[r]: what load_audio returned for r
    call,        \* call[r]: the engine call made for r
    resp,        \* resp[r]: the response started for r
    log          \* log[r]: the steps taken for r, in order

vars == <<CONFIG, phase, asr_model, created, loads, schema, loop,
          req, pc, wave, call, resp, log>>

startup == <<CONFIG, phase, asr_model, created, loads, schema>>

----------------------------------------------------------------------------
(* Bounds *)

NReq == 2            \* requests in flight in the concurrency specification
MaxSpeakers == 2     \* min_speakers / max_speakers range over 0..MaxSpeakers
MaxNameLen == 2      \* longest upload filename, in characters

Reqs == 1..NReq

----------------------------------------------------------------------------
(* Optional values: <<>> is None / "not supplied", <<v>> is the value v *)

None == <<>>

Some(v) == <<v>>

Opt(S) == {None} \cup {Some(v) : v \in S}

\* A declared parameter `name = Query(default=d)`: the supplied value or d.
Param(supplied, default) == IF supplied = None THEN default ELSE supplied[1]

----------------------------------------------------------------------------
(* Configuration and the engine variants *)

ReferenceEngine == "openai_whisper"

OptimizedEngine == "faster_whisper"

DiarizationEngine == "whisperx"

EngineNames == {ReferenceEngine, OptimizedEngine, DiarizationEngine}

\* EngineCapabilities: the features each variant supports (specification 4.2).
Capabilities(engine) ==
    CASE engine = ReferenceEngine   -> {}
      [] engine = OptimizedEngine   -> {"vad", "word_timestamps"}
      [] engine = DiarizationEngine -> {"vad", "word_timestamps", "diarization"}
      [] OTHER                      -> {}

\* ASRModelFactory.create_asr_model(): fails fast on an unknown variant or a
\* missing variant prerequisite (the diarization credential).
FactoryAccepts(cfg) ==
    /\ cfg.ASR_ENGINE \in EngineNames
    /\ cfg.ASR_ENGINE = DiarizationEngine => cfg.HF_TOKEN # ""

Configs == [ASR_ENGINE : EngineNames \cup {"other_engine"}, HF_TOKEN : {"", "hf_xxx"}]

----------------------------------------------------------------------------
(* tokenizer.LANGUAGES and LANGUAGE_CODES *)

LANGUAGES == [c \in {"de", "en", "zh"} |->
                 CASE c = "de" -> "german" [] c = "en" -> "english" [] c = "zh" -> "chinese"]

LANGUAGE_CODES == DOMAIN LANGUAGES

OUTPUT_FORMATS == {"txt", "vtt", "srt", "tsv", "json"}

----------------------------------------------------------------------------
(* urllib.parse.quote(string), safe = "/" *)

\* Characters an upload filename is built from.
Chars == {"a", ".", "/", " ", "%", "\""}

\* Characters quote() leaves as they are: letters, digits, "_.-~" and safe "/".
Unreserved == {"a", ".", "/"}

\* %XX of the one UTF-8 byte of an ASCII character.
Escape(c) ==
    CASE c = " "  -> <<"%", "2", "0">>
      [] c = "%"  -> <<"%", "2", "5">>
      [] c = "\"" -> <<"%", "2", "2">>

RECURSIVE quote(_)
quote(s) ==
    IF s = <<>> THEN <<>>
    ELSE (IF Head(s) \in Unreserved THEN <<Head(s)>> ELSE Escape(Head(s)))
         \o quote(Tail(s))

RECURSIVE SeqsUpTo(_, _)
SeqsUpTo(S, n) ==
    IF n = 0 THEN {<<>>}
    ELSE LET shorter == SeqsUpTo(S, n - 1)
         IN  shorter \cup {Append(s, c) : s \in shorter, c \in S}

Filenames == SeqsUpTo(Chars, MaxNameLen)

----------------------------------------------------------------------------
(* HTTP requests as a client sends them *)

ParamNames == {"encode", "task", "language", "initial_prompt", "prompt",
               "vad_filter", "word_timestamps", "diarize", "min_speakers",
               "max_speakers", "output", "response_format", "model"}

NoParams == [n \in ParamNames |-> None]

\* endpoint: the route; part: the multipart field that carries the upload;
\* filename, audio: the upload's name and content; params: query or form fields.
Request(endpoint, part, filename, audio) ==
    [endpoint |-> endpoint, part |-> part, filename |-> filename,
     audio |-> audio, params |-> NoParams]

NoRequest == Request("", "", <<>>, "")

\* The requests of Qs with parameter `name` omitted or set to a value of S.
Vary(Qs, name, S) ==
    {[q EXCEPT !.params[name] = v] : q \in Qs, v \in Opt(S)}

AudioKinds == {"speech", "empty", "malformed"}

----------------------------------------------------------------------------
(* Start-up: the module-level statements, in source order *)

NoCall == [fn |-> "none", result |-> None]

NoResp == [status |-> 0]

Init ==
    /\ CONFIG \in Configs
    /\ phase = "import"
    /\ asr_model = 0
    /\ created = 0
    /\ loads = 0
    /\ schema = [e \in {} |-> {}]
    /\ loop = 0
    /\ req = [r \in Reqs |-> NoRequest]
    /\ pc = [r \in Reqs |-> "new"]
    /\ wave = [r \in Reqs |-> "none"]
    /\ call = [r \in Reqs |-> NoCall]
    /\ resp = [r \in Reqs |-> NoResp]
    /\ log = [r \in Reqs |-> <<>>]

requests == <<loop, req, pc, wave, call, resp, log>>

\* asr_model = ASRModelFactory.create_asr_model()
CreateAsrModel ==
    /\ phase = "import"
    /\ IF FactoryAccepts(CONFIG)
       THEN /\ created' = created + 1
            /\ asr_model' = created + 1
            /\ phase' = "created"
       ELSE /\ phase' = "fatal"
            /\ UNCHANGED <<created, asr_model>>
    /\ UNCHANGED <<CONFIG, loads, schema, requests>>

\* asr_model.load_model()
LoadModel ==
    /\ phase = "created"
    /\ loads' = loads + 1
    /\ phase' = "loaded"
    /\ UNCHANGED <<CONFIG, asr_model, created, schema, requests>>

\* include_in_schema of the optional parameters of /asr
asr_schema(cfg) ==
    (IF cfg.ASR_ENGINE = "faster_whisper" THEN {"vad_filter"} ELSE {})
    \cup (IF cfg.ASR_ENGINE = "faster_whisper" THEN {"word_timestamps"} ELSE {})
    \cup (IF cfg.ASR_ENGINE = "whisperx" /\ cfg.HF_TOKEN # "" THEN {"diarize"} ELSE {})
    \cup (IF cfg.ASR_ENGINE = "whisperx" THEN {"min_speakers"} ELSE {})
    \cup (IF cfg.ASR_ENGINE = "whisperx" THEN {"max_speakers"} ELSE {})

\* include_in_schema of the optional parameters of /audio/transcriptions
transcriptions_schema(cfg) ==
    (IF cfg.ASR_ENGINE = "faster_whisper" THEN {"vad_filter"} ELSE {})
    \cup (IF cfg.ASR_ENGINE = "faster_whisper" THEN {"word_timestamps"} ELSE {})
    \cup (IF cfg.ASR_ENGINE = "whisperx" /\ cfg.HF_TOKEN # "" THEN {"diarize"} ELSE {})
    \cup (IF cfg.ASR_ENGINE = "whisperx" THEN {"min_speakers"} ELSE {})
    \cup (IF cfg.ASR_ENGINE = "whisperx" THEN {"max_speakers"} ELSE {})

\* app = FastAPI(...) and the three @app.post definitions
DefineRoutes ==
    /\ phase = "loaded"
    /\ schema' = [e \in {"/asr", "/audio/transcriptions"} |->
                     IF e = "/asr" THEN asr_schema(CONFIG)
                                   ELSE transcriptions_schema(CONFIG)]
    /\ phase' = "routes"
    /\ UNCHANGED <<CONFIG, asr_model, created, loads, requests>>

\* start(): uvicorn.run(app, host, port) binds the socket and runs the loop
Serve ==
    /\ phase = "routes"
    /\ phase' = "serving"
    /\ UNCHANGED <<CONFIG, asr_model, created, loads, schema, requests>>

----------------------------------------------------------------------------
(* The collaborators the handlers call (app.utils, app.factory: not in src/) *)

\* load_audio(file, encode): what it can do with an upload.  Undecodable bytes
\* are a client-input error; an empty upload is refused here or yields an
\* empty waveform, which the engine then refuses.
load_audio(audio, encode) ==
    CASE audio = "speech"    -> {"pcm"}
      [] audio = "malformed" -> {"InvalidAudioError"}
      [] audio = "empty"     -> {"InvalidAudioError", "empty"}

Errors == {"InvalidAudioError", "InvalidOptionError", "EngineTimeoutError",
           "InvalidSegmentError", "KeyError"}

\* min_speakers and max_speakers both given and contradictory.
BadSpeakerBounds(options) ==
    /\ options.min_speakers # None
    /\ options.max_speakers # None
    /\ options.min_speakers[1] > options.max_speakers[1]

\* asr_model.transcribe(...): the outcomes of the call for engine variant `engine`.
\* Unsupported options are ignored; only the diarization variant reads the
\* speaker bounds.
transcribe(engine, c) ==
    IF c.audio = "empty" THEN {"InvalidAudioError"}
    ELSE IF "diarization" \in Capabilities(engine) /\ BadSpeakerBounds(c.options)
         THEN {"InvalidOptionError"}
         ELSE {"segments", "EngineTimeoutError"}

\* What the handler may unpack from the engine's return value: it takes any
\* (code, confidence) pair, a code tokenizer.LANGUAGES lacks and a confidence
\* outside the documented [0,1] included; confidence is in hundredths.
DetectedCodes == LANGUAGE_CODES \cup {"yue"}

Confidences == {-10, 0, 50, 100, 150}

\* asr_model.language_detection(audio): the outcomes of the call.
language_detection(engine, c) ==
    IF c.audio = "empty" THEN {<<"InvalidAudioError">>}
    ELSE {<<"EngineTimeoutError">>}
         \cup {<<"detected", code, conf>> : code \in DetectedCodes, conf \in Confidences}

----------------------------------------------------------------------------
(* The event loop and the handlers *)

Endpoints == {"/asr", "/audio/transcriptions", "/detect-language"}

\* The multipart field each route declares with File(...).
FilePart(endpoint) ==
    IF endpoint = "/audio/transcriptions" THEN "file" ELSE "audio_file"

Step(r, event) == log' = [log EXCEPT ![r] = Append(@, event)]

\* A client connects to the listening socket and sends one of the requests Q.
Submit(r, Q) ==
    /\ phase = "serving"
    /\ pc[r] = "new"
    /\ \E q \in Q : req' = [req EXCEPT ![r] = q]
    /\ pc' = [pc EXCEPT ![r] = "pending"]
    /\ UNCHANGED <<startup, loop, wave, call, resp, log>>

\* A handler that loads the model again on every call.
EngineReloaded ==
    /\ loads' = loads + 1
    /\ UNCHANGED <<asr_model, created>>

\* The handlers use the module global and leave it as it is.
EngineUntouched == UNCHANGED <<asr_model, created, loads>>

\* The app registers no exception handler: whatever a handler raises becomes
\* the framework's 500 response.
StatusOf(error) == 500

\* A handler that swallows the exception and runs the engine call again.
RetryOnError(r, error) ==
    /\ pc' = [pc EXCEPT ![r] = "loaded"]
    /\ Step(r, "error")
    /\ UNCHANGED <<resp, loop>>

\* An exception leaves the handler of r.
Raise(r, error) ==
    /\ resp' = [resp EXCEPT ![r] = [status |-> StatusOf(error), error |-> error]]
    /\ pc' = [pc EXCEPT ![r] = "failed"]
    /\ loop' = 0
    /\ Step(r, "error")

\* The loop, when idle, takes a pending request: the framework validates it
\* (422 when the required upload is missing) and enters the route's handler.
Accept(r) ==
    /\ phase = "serving"
    /\ loop = 0
    /\ pc[r] = "pending"
    /\ IF req[r].part = FilePart(req[r].endpoint)
       THEN /\ pc' = [pc EXCEPT ![r] = "handler"]
            /\ loop' = r
            /\ UNCHANGED resp
       ELSE /\ pc' = [pc EXCEPT ![r] = "rejected"]
            /\ resp' = [resp EXCEPT ![r] = [status |-> 422]]
            /\ UNCHANGED loop
    /\ UNCHANGED <<startup, req, wave, call, log>>

\* The first argument of the engine call: load_audio(file.file, encode).
LoadAudio(r) ==
    /\ loop = r
    /\ pc[r] = "handler"
    /\ \E out \in load_audio(req[r].audio, Param(req[r].params.encode, TRUE)) :
          IF out \in Errors
          THEN /\ Raise(r, out)
               /\ UNCHANGED wave
          ELSE /\ wave' = [wave EXCEPT ![r] = out]
               /\ pc' = [pc EXCEPT ![r] = "loaded"]
               /\ Step(r, "load")
               /\ UNCHANGED <<loop, resp>>
    /\ UNCHANGED <<startup, req, call>>

\* A dispatcher that passes an option on only when the active engine has the
\* feature.
asr_args_gated(q, audio) ==
    [fn |-> "transcribe",
     audio |-> audio,
     task |-> Param(q.params.task, "transcribe"),
     language |-> q.params.language,
     initial_prompt |-> q.params.initial_prompt,
     vad_filter |-> "vad" \in Capabilities(CONFIG.ASR_ENGINE)
                    /\ Param(q.params.vad_filter, FALSE),
     word_timestamps |-> Param(q.params.word_timestamps, FALSE),
     options |-> [diarize |-> Param(q.params.diarize, FALSE),
                  min_speakers |-> q.params.min_speakers,
                  max_speakers |-> q.params.max_speakers],
     output |-> Param(q.params.output, "txt")]

\* The arguments /asr passes to transcribe, from the request and the
\* declared defaults.
asr_args(q, audio) ==
    [fn |-> "transcribe",
     audio |-> audio,
     task |-> Param(q.params.task, "transcribe"),
     language |-> q.params.language,
     initial_prompt |-> q.params.initial_prompt,
     vad_filter |-> Param(q.params.vad_filter, FALSE),
     word_timestamps |-> Param(q.params.word_timestamps, FALSE),
     options |-> [diarize |-> Param(q.params.diarize, FALSE),
                  min_speakers |-> q.params.min_speakers,
                  max_speakers |-> q.params.max_speakers],
     output |-> Param(q.params.output, "txt")]

\* A handler that reads the prompt under the /asr name.
transcriptions_args_unrenamed(q, audio) ==
    [fn |-> "transcribe",
     audio |-> audio,
     task |-> "transcribe",
     language |-> q.params.language,
     initial_prompt |-> q.params.initial_prompt,
     vad_filter |-> Param(q.params.vad_filter, FALSE),
     word_timestamps |-> Param(q.params.word_timestamps, FALSE),
     options |-> [diarize |-> Param(q.params.diarize, FALSE),
                  min_speakers |-> q.params.min_speakers,
                  max_speakers |-> q.params.max_speakers],
     output |-> Param(q.params.response_format, "json")]

\* The arguments /audio/transcriptions passes to transcribe.
transcriptions_args(q, audio) ==
    [fn |-> "transcribe",
     audio |-> audio,
     task |-> "transcribe",
     language |-> q.params.language,
     initial_prompt |-> q.params.prompt,
     vad_filter |-> Param(q.params.vad_filter, FALSE),
     word_timestamps |-> Param(q.params.word_timestamps, FALSE),
     options |-> [diarize |-> Param(q.params.diarize, FALSE),
                  min_speakers |-> q.params.min_speakers,
                  max_speakers |-> q.params.max_speakers],
     output |-> Param(q.params.response_format, "json")]

\* The argument /detect-language passes to language_detection.
detect_language_args(q, audio) ==
    [fn |-> "language_detection", audio |-> audio]

\* The call record: the arguments, the engine instance called, no result yet.
Called(args, engine) ==
    [n \in DOMAIN args \cup {"engine", "result"} |->
        IF n = "engine" THEN engine ELSE IF n = "result" THEN None ELSE args[n]]

\* f'attachment; filename="{quote(filename)}.{output}"'
ContentDisposition(filename, output) ==
    <<"attachment; filename=", "\"">> \o quote(filename) \o <<".", output, "\"">>

\* StreamingResponse(result, media_type=..., headers=...) of /asr
asr_response(q, cfg) ==
    [status |-> 200,
     media_type |-> "text/plain",
     headers |-> ("Asr-Engine" :> cfg.ASR_ENGINE
                  @@ "Content-Disposition" :>
                        ContentDisposition(q.filename, Param(q.params.output, "txt")))]

\* StreamingResponse(result, media_type=..., headers=...) of /audio/transcriptions
transcriptions_response(q, cfg) ==
    [status |-> 200,
     media_type |-> "text/plain",
     headers |-> ("Asr-Engine" :> cfg.ASR_ENGINE
                  @@ "Content-Disposition" :>
                        ContentDisposition(q.filename,
                                           Param(q.params.response_format, "json")))]

\* A handler that reports the code where the language name belongs.
detect_language_response_unnamed(code, confidence) ==
    [status |-> 200,
     body |-> [detected_language |-> code,
               language_code |-> code,
               confidence |-> confidence]]

\* The dict /detect-language returns, sent as JSON.
detect_language_response(code, confidence) ==
    [status |-> 200,
     body |-> [detected_language |-> LANGUAGES[code],
               language_code |-> code,
               confidence |-> confidence]]

\* asr_model.transcribe(...) is entered from the /asr handler.
asr_call(r) ==
    /\ loop = r
    /\ pc[r] = "loaded"
    /\ req[r].endpoint = "/asr"
    /\ call' = [call EXCEPT ![r] = Called(asr_args(req[r], wave[r]), asr_model)]
    /\ pc' = [pc EXCEPT ![r] = "in_engine"]
    /\ Step(r, "call")
    /\ EngineUntouched
    /\ UNCHANGED <<CONFIG, phase, schema, loop, req, wave, resp>>

\* transcribe returns to /asr, which returns its StreamingResponse, or raises.
asr_return(r) ==
    /\ loop = r
    /\ pc[r] = "in_engine"
    /\ req[r].endpoint = "/asr"
    /\ \E out \in transcribe(CONFIG.ASR_ENGINE, call[r]) :
          /\ call' = [call EXCEPT ![r].result = Some(out)]
          /\ IF out \in Errors
             THEN Raise(r, out)
             ELSE /\ resp' = [resp EXCEPT ![r] = asr_response(req[r], CONFIG)]
                  /\ pc' = [pc EXCEPT ![r] = "streaming"]
                  /\ loop' = 0
                  /\ Step(r, "respond")
    /\ UNCHANGED <<startup, req, wave>>

\* asr_model.transcribe(...) is entered from the /audio/transcriptions handler.
transcriptions_call(r) ==
    /\ loop = r
    /\ pc[r] = "loaded"
    /\ req[r].endpoint = "/audio/transcriptions"
    /\ call' = [call EXCEPT ![r] =
                   Called(transcriptions_args(req[r], wave[r]), asr_model)]
    /\ pc' = [pc EXCEPT ![r] = "in_engine"]
    /\ Step(r, "call")
    /\ EngineUntouched
    /\ UNCHANGED <<CONFIG, phase, schema, loop, req, wave, resp>>

\* transcribe returns to /audio/transcriptions, or raises.
transcriptions_return(r) ==
    /\ loop = r
    /\ pc[r] = "in_engine"
    /\ req[r].endpoint = "/audio/transcriptions"
    /\ \E out \in transcribe(CONFIG.ASR_ENGINE, call[r]) :
          /\ call' = [call EXCEPT ![r].result = Some(out)]
          /\ IF out \in Errors
             THEN Raise(r, out)
             ELSE /\ resp' = [resp EXCEPT ![r] =
                                 transcriptions_response(req[r], CONFIG)]
                  /\ pc' = [pc EXCEPT ![r] = "streaming"]
                  /\ loop' = 0
                  /\ Step(r, "respond")
    /\ UNCHANGED <<startup, req, wave>>

\* asr_model.language_detection(...) is entered from /detect-language.
detect_language_call(r) ==
    /\ loop = r
    /\ pc[r] = "loaded"
    /\ req[r].endpoint = "/detect-language"
    /\ call' = [call EXCEPT ![r] =
                   Called(detect_language_args(req[r], wave[r]), asr_model)]
    /\ pc' = [pc EXCEPT ![r] = "in_engine"]
    /\ Step(r, "call")
    /\ EngineUntouched
    /\ UNCHANGED <<CONFIG, phase, schema, loop, req, wave, resp>>

\* language_detection returns its pair; the handler looks the code up in
\* tokenizer.LANGUAGES (KeyError when absent) and returns the dict.
detect_language_return(r) ==
    /\ loop = r
    /\ pc[r] = "in_engine"
    /\ req[r].endpoint = "/detect-language"
    /\ \E out \in language_detection(CONFIG.ASR_ENGINE, call[r]) :
          /\ call' = [call EXCEPT ![r].result = Some(out)]
          /\ IF out[1] \in Errors
             THEN Raise(r, out[1])
             ELSE IF out[2] \notin DOMAIN LANGUAGES
             THEN Raise(r, "KeyError")
             ELSE /\ resp' = [resp EXCEPT ![r] =
                                 detect_language_response(out[2], out[3])]
                  /\ pc' = [pc EXCEPT ![r] = "done"]
                  /\ loop' = 0
                  /\ Step(r, "respond")
    /\ UNCHANGED <<startup, req, wave>>

\* The body of a started StreamingResponse is iterated off the loop, to its
\* end or until the formatter fails or the client goes away.
StreamBody(r) ==
    /\ pc[r] = "streaming"
    /\ \E end \in {"done", "aborted"} :
          /\ pc' = [pc EXCEPT ![r] = end]
          /\ Step(r, end)
    /\ UNCHANGED <<startup, loop, req, wave, call, resp>>

----------------------------------------------------------------------------
(* Specification: concurrent clients of all three routes *)

ConcRequests ==
    {Request(e, FilePart(e), <<"a">>, a) : e \in Endpoints, a \in AudioKinds}
    \cup {Request("/asr", "file", <<"a">>, "speech")}

Startup == CreateAsrModel \/ LoadModel \/ DefineRoutes \/ Serve

Handle(r) ==
    \/ Accept(r)
    \/ LoadAudio(r)
    \/ asr_call(r)
    \/ asr_return(r)
    \/ transcriptions_call(r)
    \/ transcriptions_return(r)
    \/ detect_language_call(r)
    \/ detect_language_return(r)
    \/ StreamBody(r)

Next ==
    \/ Startup
    \/ \E r \in Reqs : Submit(r, ConcRequests)
    \/ \E r \in Reqs : Handle(r)

Spec == Init /\ [][Next]_vars

----------------------------------------------------------------------------
(* Claims checked under Spec *)

Count(seq, e) == Cardinality({i \in DOMAIN seq : seq[i] = e})

Before(seq, a, b) ==
    \A i \in DOMAIN seq : seq[i] = b => \E j \in 1..(i - 1) : seq[j] = a

Finished == {"streaming", "done", "aborted", "failed"}

\* C1: one engine instance is created and its model loaded once, during
\* start-up and before any request is taken; every engine call any handler
\* makes goes to that instance, and no handler creates or reloads an engine.
C1_SingleEngine ==
    /\ (\E r \in Reqs : pc[r] # "new") => phase = "serving"
    /\ phase \in {"created", "loaded", "routes", "serving"} =>
          created = 1 /\ asr_model = 1
    /\ phase \in {"loaded", "routes", "serving"} => loads = 1
    /\ phase \in {"import", "fatal"} => created = 0 /\ loads = 0
    /\ \A r \in Reqs : call[r].fn # "none" => call[r].engine = 1

C1_Witness ==
    \E r, s \in Reqs :
        /\ call[r].fn = "transcribe" /\ call[r].result # None
        /\ call[s].fn = "language_detection" /\ call[s].result # None
        /\ created = 1 /\ loads = 1

\* C4: while one request is inside a transcribe or language_detection call,
\* the server can still take another pending request.
C4_AcceptsWhileBusy ==
    \A r, s \in Reqs :
        (pc[r] = "in_engine" /\ pc[s] = "pending") => ENABLED Accept(s)

\* C5: a request with an empty upload ends in HTTP 400 (InvalidAudioError)
\* on all three routes, never in a 200.
C5_EmptyUploadIs400 ==
    \A r \in Reqs :
        (req[r].audio = "empty" /\ pc[r] \in Finished) =>
            resp[r].status = 400

\* C9 as claimed: a /detect-language success carries a supported code, that
\* code's name and a confidence in [0,1]; a code outside the supported set or
\* a confidence outside [0,1] from the engine yields no success response.
C9_ValidatedDetection ==
    \A r \in Reqs :
        (req[r].endpoint = "/detect-language" /\ resp[r].status = 200) =>
            /\ resp[r].body.language_code \in LANGUAGE_CODES
            /\ resp[r].body.detected_language = LANGUAGES[resp[r].body.language_code]
            /\ resp[r].body.confidence \in 0..100
            /\ call[r].result[1][2] \in LANGUAGE_CODES
            /\ call[r].result[1][3] \in 0..100

\* C9 as amended: a /detect-language success carries the code the engine
\* returned, which is a supported code, that code's name, and the engine's
\* confidence unchanged (so within [0,1] whenever the engine's is); a code
\* outside the supported set yields no success response but a 500.
C9_PassThroughDetection ==
    \A r \in Reqs :
        req[r].endpoint = "/detect-language" =>
            /\ resp[r].status = 200 =>
                  /\ call[r].result # None
                  /\ call[r].result[1][1] = "detected"
                  /\ resp[r].body.language_code = call[r].result[1][2]
                  /\ resp[r].body.language_code \in LANGUAGE_CODES
                  /\ resp[r].body.detected_language
                        = LANGUAGES[resp[r].body.language_code]
                  /\ resp[r].body.confidence = call[r].result[1][3]
            /\ (/\ call[r].result # None
                /\ call[r].result[1][1] = "detected"
                /\ call[r].result[1][2] \notin LANGUAGE_CODES)
                  => resp[r].status = 500

C9_Witness ==
    \E r, s \in Reqs :
        /\ req[r].endpoint = "/detect-language"
        /\ resp[r].status = 200
        /\ resp[r].body.confidence = 50
        /\ req[s].endpoint = "/detect-language"
        /\ call[s].result = Some(<<"detected", "yue", 50>>)

\* C10: per request the audio is loaded, then the engine called, then the
\* response started, each at most once; no engine call without a loaded
\* waveform; no second call after an error; a failure reaches the client once.
C10_OneOrderedPass ==
    \A r \in Reqs :
        /\ Count(log[r], "load") <= 1
        /\ Count(log[r], "call") <= 1
        /\ Count(log[r], "respond") <= 1
        /\ Count(log[r], "error") + Count(log[r], "aborted") <= 1
        /\ Before(log[r], "load", "call")
        /\ Before(log[r], "call", "respond")
        /\ Count(log[r], "call") = 1 => wave[r] # "none"
        /\ Count(log[r], "error") = 1 =>
              /\ log[r][Len(log[r])] = "error"
              /\ pc[r] = "failed"
              /\ resp[r].status = 500
        /\ pc[r] = "failed" => Count(log[r], "error") = 1
        /\ pc[r] = "aborted" => Count(log[r], "aborted") = 1

C10_Witness ==
    \E r, s \in Reqs :
        /\ log[r] = <<"load", "call", "error">>
        /\ log[s] = <<"error">>

----------------------------------------------------------------------------
(* Specification: one client trying every option on the two transcribe routes *)

TranscribeRoutes == {"/asr", "/audio/transcriptions"}

OptionRequests ==
    LET base     == {Request(e, part, <<"a">>, "speech") :
                        e \in TranscribeRoutes, part \in {"audio_file", "file"}}
        switches == Vary(Vary(Vary(base, "vad_filter", BOOLEAN),
                              "word_timestamps", BOOLEAN), "diarize", BOOLEAN)
    IN  Vary(Vary(switches, "min_speakers", 0..MaxSpeakers),
             "max_speakers", 0..MaxSpeakers)

HandleTranscribe(r) ==
    \/ Accept(r)
    \/ LoadAudio(r)
    \/ asr_call(r)
    \/ asr_return(r)
    \/ transcriptions_call(r)
    \/ transcriptions_return(r)
    \/ StreamBody(r)

NextOptions ==
    \/ Startup
    \/ Submit(1, OptionRequests)
    \/ \E r \in Reqs : HandleTranscribe(r)

SpecOptions == Init /\ [][NextOptions]_vars

\* C2: on every engine variant and for every combination of vad_filter,
\* word_timestamps, diarize, min_speakers and max_speakers, a request on a
\* transcribe route is refused by the dispatcher only for a missing upload,
\* and once its audio is loaded it leads to a transcribe call whose arguments
\* are the request's values (or the declared defaults), whatever the engine.
C2_OptionsPassedThrough ==
    \A r \in Reqs :
        req[r].endpoint \in TranscribeRoutes =>
            /\ resp[r].status = 422 => req[r].part # FilePart(req[r].endpoint)
            /\ pc[r] \in {"in_engine"} \cup Finished /\ wave[r] = "pcm" =>
                  /\ call[r].fn = "transcribe"
                  /\ call[r].audio = "pcm"
                  /\ call[r].vad_filter
                        = (req[r].params.vad_filter = Some(TRUE))
                  /\ call[r].word_timestamps
                        = (req[r].params.word_timestamps = Some(TRUE))
                  /\ call[r].options.diarize
                        = (req[r].params.diarize = Some(TRUE))
                  /\ call[r].options.min_speakers = req[r].params.min_speakers
                  /\ call[r].options.max_speakers = req[r].params.max_speakers
            /\ pc[r] \in Finished /\ wave[r] = "pcm" => call[r].result # None

C2_Witness ==
    \E r \in Reqs :
        /\ CONFIG.ASR_ENGINE = ReferenceEngine
        /\ pc[r] = "streaming"
        /\ call[r].vad_filter /\ call[r].word_timestamps /\ call[r].options.diarize
        /\ call[r].options.min_speakers = Some(1)
        /\ call[r].options.max_speakers = Some(2)

\* C6: a transcribe-route request with min_speakers > max_speakers fails
\* with HTTP 400 (InvalidOptionError) before any inference is started.
C6_BadBoundsIs400 ==
    \A r \in Reqs :
        (/\ req[r].endpoint \in TranscribeRoutes
         /\ req[r].params.min_speakers # None
         /\ req[r].params.max_speakers # None
         /\ req[r].params.min_speakers[1] > req[r].params.max_speakers[1]
         /\ pc[r] \in Finished)
            => /\ resp[r].status = 400
               /\ call[r].result # Some("segments")

\* C8: on both transcribe routes vad_filter and word_timestamps are in the
\* generated documentation exactly when the active engine supports them, and
\* diarize, min_speakers and max_speakers exactly when the engine is the
\* diarization variant and a credential is configured.
C8_SchemaFollowsCapabilities ==
    phase = "serving" =>
        \A e \in TranscribeRoutes :
            /\ "vad_filter" \in schema[e] <=> "vad" \in Capabilities(CONFIG.ASR_ENGINE)
            /\ "word_timestamps" \in schema[e]
                  <=> "word_timestamps" \in Capabilities(CONFIG.ASR_ENGINE)
            /\ \A n \in {"diarize", "min_speakers", "max_speakers"} :
                  n \in schema[e] <=>
                     (CONFIG.ASR_ENGINE = DiarizationEngine /\ CONFIG.HF_TOKEN # "")

----------------------------------------------------------------------------
(* Specification: one client, every upload name and every output format *)

\* output / response_format are declared Union[str, None]; the enum keyword
\* only annotates the schema, so any string is taken.
OutputStrings == OUTPUT_FORMATS \cup {"xml"}

HeaderRequests ==
    LET base == {Request(e, FilePart(e), name, "speech") :
                    e \in TranscribeRoutes, name \in Filenames}
    IN  {q \in Vary(Vary(base, "output", OutputStrings),
                    "response_format", OutputStrings) :
            \/ q.endpoint = "/asr" /\ q.params.response_format \in Opt({"vtt"})
            \/ q.endpoint # "/asr" /\ q.params.output \in Opt({"vtt"})}

NextHeaders ==
    \/ Startup
    \/ Submit(1, HeaderRequests)
    \/ \E r \in Reqs : HandleTranscribe(r)

SpecHeaders == Init /\ [][NextHeaders]_vars

\* Decoding of percent-escapes: the inverse quote() must have.
RECURSIVE unquote(_)
unquote(s) ==
    IF s = <<>> THEN <<>>
    ELSE IF Head(s) = "%" /\ Len(s) >= 3
         THEN <<CHOOSE c \in Chars \ Unreserved : Escape(c) = SubSeq(s, 1, 3)>>
              \o unquote(SubSeq(s, 4, Len(s)))
         ELSE <<Head(s)>> \o unquote(Tail(s))

\* The format the request asked for, under the route's own parameter name.
Requested(q) ==
    IF q.endpoint = "/asr" THEN Param(q.params.output, "txt")
                           ELSE Param(q.params.response_format, "json")

\* C7: every response a transcribe route starts is text/plain, names the
\* configured engine in Asr-Engine, and has Content-Disposition
\* attachment; filename="<N>.<F>" with N the percent-encoded upload name and
\* F the format requested in the same request, one of the five formats.
C7_ResponseHeaders ==
    \A r \in Reqs :
        (req[r].endpoint \in TranscribeRoutes /\ resp[r].status = 200) =>
            LET cd == resp[r].headers["Content-Disposition"]
                n  == SubSeq(cd, 3, Len(cd) - 3)
            IN  /\ resp[r].media_type = "text/plain"
                /\ resp[r].headers["Asr-Engine"] = CONFIG.ASR_ENGINE
                /\ Len(cd) >= 5
                /\ SubSeq(cd, 1, 2) = <<"attachment; filename=", "\"">>
                /\ SubSeq(cd, Len(cd) - 2, Len(cd)) = <<".", Requested(req[r]), "\"">>
                /\ \A i \in DOMAIN n : n[i] \in Unreserved \cup {"%", "0", "2", "5"}
                /\ unquote(n) = req[r].filename
                /\ Requested(req[r]) \in OUTPUT_FORMATS

----------------------------------------------------------------------------
(* Specification: the same request sent to /asr and to /audio/transcriptions *)

PairRequests ==
    LET base  == {Request("/asr", "audio_file", <<"a", " ">>, a) :
                     a \in {"speech", "malformed"}}
        texts == Vary(Vary(Vary(base, "task", {"transcribe"}),
                           "language", {"en"}), "initial_prompt", {"hello"})
        flags == Vary(Vary(Vary(Vary(texts, "encode", {FALSE}),
                                "vad_filter", {TRUE}),
                           "word_timestamps", {TRUE}), "diarize", {TRUE})
    IN  Vary(Vary(Vary(flags, "min_speakers", {1}), "max_speakers", {MaxSpeakers}),
             "output", OUTPUT_FORMATS)

\* The /audio/transcriptions request that corresponds to /asr request q:
\* file for audio_file, prompt for initial_prompt, response_format for
\* output, and no task.
Corresponding(q) ==
    [q EXCEPT !.endpoint = "/audio/transcriptions",
              !.part = "file",
              !.params = [n \in ParamNames |->
                            CASE n = "prompt" -> q.params.initial_prompt
                              [] n = "response_format" -> q.params.output
                              [] n \in {"initial_prompt", "output", "task"} -> None
                              [] OTHER -> q.params[n]]]

NextPair ==
    \/ Startup
    \/ Submit(1, PairRequests)
    \/ pc[1] # "new" /\ Submit(2, {Corresponding(req[1])})
    \/ \E r \in Reqs : HandleTranscribe(r)

SpecPair == Init /\ [][NextPair]_vars

\* What was passed to the engine, without the outcome of the call.
Passed(c) == [n \in DOMAIN c \ {"result"} |-> c[n]]

\* C3 as claimed: for corresponding requests, each optional parameter given
\* or omitted, /audio/transcriptions makes the transcribe call /asr makes and
\* answers with the headers /asr answers with.
C3_SameAsAsr ==
    (req[2] = Corresponding(req[1]) /\ pc[2] # "new") =>
        /\ (call[1].fn = "transcribe" /\ call[2].fn = "transcribe")
              => Passed(call[2]) = Passed(call[1])
        /\ (resp[1].status = 200 /\ resp[2].status = 200)
              => resp[2] = resp[1]

\* C3 as amended: the same, for the requests that name the output format;
\* with the format omitted /asr renders txt and /audio/transcriptions json.
C3_SameAsAsrGivenFormat ==
    (req[2] = Corresponding(req[1]) /\ pc[2] # "new") =>
        /\ (call[1].fn = "transcribe" /\ call[2].fn = "transcribe") =>
              IF req[1].params.output # None
              THEN Passed(call[2]) = Passed(call[1])
              ELSE /\ call[1].output = "txt"
                   /\ call[2].output = "json"
                   /\ [Passed(call[2]) EXCEPT !.output = "txt"] = Passed(call[1])
        /\ (resp[1].status = 200 /\ resp[2].status = 200
            /\ req[1].params.output # None)
              => resp[2] = resp[1]

C3_Witness ==
    /\ req[2] = Corresponding(req[1])
    /\ req[1].params.output = Some("srt")
    /\ req[1].params.initial_prompt = Some("hello")
    /\ req[1].params.task = None
    /\ resp[1].status = 200
    /\ resp[2].status = 200

====
